---- MODULE Spec2Model ----
(***************************************************************************)
(* Model of the standard-atmosphere evaluator (src/atmosphere/ISA.py) and  *)
(* of the airspeed converter (src/conversion/speed.py).                    *)
(*                                                                         *)
(* Units.  Altitudes are whole metres.  Temperatures, offsets and          *)
(* lapse-rate products are in 1e-4 K (lapse rates in 1e-4 K/m), so the     *)
(* layer sums of the source are exact integers.  The molecular-weight      *)
(* ratio is in units of 2e-9 (1e-6 / 500), which makes the linear          *)
(* interpolation over the 500 m table exact.  Quantities the source gets   *)
(* from real powers and exponentials (pressure factors, pressure, density) *)
(* are kept as terms: a record of the formula applied and the values it    *)
(* was applied to.  Two terms are equal exactly when the source applied    *)
(* the same formula to the same values.                                    *)
(*                                                                         *)
(* Python indices start at 0, TLA+ sequences at 1: At(s, k) is s[k] of the *)
(* source.                                                                 *)
(***************************************************************************)
EXTENDS Integers, Sequences, FiniteSets, TLC

VARIABLES
    cls,        \* class of the atmosphere object built: "none", "constant", "ISA"
    ctor,       \* how its constructor ended: "none", "ok", or the exception
    self,       \* the object's attributes: a record with the fields that are set
    arg_hp,     \* the hp argument the constructor was given
    arg_disa,   \* the disa argument the constructor was given
    prop,       \* the property read last ("none" before any read)
    ret,        \* what that read gave: [status, val]
    spd_ctor,   \* how speed(...) ended: "none", "ok", or the exception
    spd_args,   \* the speed arguments supplied (non-None), by name
    spd,        \* the speed object's attributes that are not None
    solver      \* the calls made to the root-finder, in order

vars == <<cls, ctor, self, arg_hp, arg_disa, prop, ret,
          spd_ctor, spd_args, spd, solver>>

isa_vars == <<cls, ctor, self, arg_hp, arg_disa, prop, ret>>
spd_vars == <<spd_ctor, spd_args, spd, solver>>

---------------------------------------------------------------------------
(* Bounds and input sets *)

MaxBatch == 2

\* Length of the long batches: LongLen - 1 copies of one altitude, then another.
LongLen == 6

Altitudes == {0, 11000, 15000, 20000, 25000, 32000, 47000, 51000, 71000,
              80250, 84600, 84852}

Offsets == {-100000, 0, 150000}

SeqsUpTo(S, n) == UNION {[1..k -> S] : k \in 1..n}

\* An argument is a number (kind "scalar") or a sequence (kind "seq").
Scalar(x) == [kind |-> "scalar", v |-> <<x>>]
Sequence(s) == [kind |-> "seq", v |-> s]

LongBatches == {[k \in 1..LongLen |-> IF k < LongLen THEN g ELSE h] :
                    g \in Altitudes, h \in Altitudes}

HpInputs == {Scalar(h) : h \in Altitudes}
            \cup {Sequence(s) : s \in SeqsUpTo(Altitudes, MaxBatch)}
            \cup {Sequence(s) : s \in LongBatches}

DisaInputs == {Scalar(d) : d \in Offsets}
              \cup {Sequence(s) : s \in SeqsUpTo(Offsets, MaxBatch)}

---------------------------------------------------------------------------
(* Outcomes of a call *)

Ok(v) == [status |-> "ok", val |-> v]
Raise(e) == [status |-> e, val |-> <<>>]
NoVal == Raise("none")

At(s, k) == s[k + 1]

---------------------------------------------------------------------------
(* class constant *)

\* try: if len(hp) > 1: self.hp = array(hp)   except: self.hp = array([hp])
\* len() of a number raises, which the bare except turns into array([hp]);
\* a sequence of length <= 1 raises nothing and assigns nothing.
coerce(obj, name, x) ==
    IF x.kind = "scalar" THEN [n \in DOMAIN obj \cup {name} |->
                                 IF n = name THEN x.v ELSE obj[n]]
    ELSE IF Len(x.v) > 1 THEN [n \in DOMAIN obj \cup {name} |->
                                 IF n = name THEN x.v ELSE obj[n]]
    ELSE obj

NoAttrs == [n \in {} |-> <<>>]

constant_init(hp_in) == [status |-> "ok", obj |-> coerce(NoAttrs, "hp", hp_in)]

gas_constant == 831432

pressure_sealevel == 101325

temperature_sealevel == 2881500

\* 1.0 in the unit of the molecular-weight ratio.
MRatioOne == 1000000 * 500

H_table == <<79000, 79500, 80000, 80500, 81000, 81500,
             82000, 82500, 83000, 83500, 84000, 84500>>

M_per_M0_table == <<1000000, 999996, 999988, 999969, 999938, 999904,
                    999864, 999822, 999778, 999731, 999681, 999679>>

\* interp1d(H, M_per_M0_table)(h): linear inside the table, ValueError outside.
interp1d(h) ==
    IF h < H_table[1] \/ h > H_table[Len(H_table)] THEN Raise("ValueError")
    ELSE LET k == CHOOSE k \in 1..(Len(H_table) - 1) :
                      /\ H_table[k] <= h
                      /\ h <= H_table[k + 1]
                      /\ \A j \in 1..(k - 1) : ~(h <= H_table[j + 1])
         IN Ok(M_per_M0_table[k] * (H_table[k + 1] - H_table[k])
               + (M_per_M0_table[k + 1] - M_per_M0_table[k]) * (h - H_table[k]))

\* The loop over pos of mean_molecular_weight_ratio.
M_per_M0_of(hp) ==
    IF \E p \in 1..Len(hp) : hp[p] >= 79000 /\ interp1d(hp[p]).status # "ok"
    THEN Raise("ValueError")
    ELSE Ok([p \in 1..Len(hp) |->
               IF hp[p] >= 79000 THEN interp1d(hp[p]).val ELSE MRatioOne])

mean_molecular_weight_ratio(obj) ==
    IF "hp" \notin DOMAIN obj THEN Raise("AttributeError")
    ELSE M_per_M0_of(obj.hp)

\* gas_constant/(mean_molecular_weight_ratio*M0), per element: the term
\* <<gas_constant, ratio>>; M0 is the same constant in every term.
air_constant_of(m) ==
    IF m.status # "ok" THEN m
    ELSE Ok([p \in 1..Len(m.val) |-> <<gas_constant, m.val[p]>>])

air_constant(obj) == air_constant_of(mean_molecular_weight_ratio(obj))

lmb == <<-65, 0, 10, 28, 0, -28, -20>>

hb == <<0, 11000, 20000, 32000, 47000, 51000, 71000, 84852>>

\* argwhere(hb <= hp)[:,0]: the indices (from 0) of the bases not above h.
argwhere_hb(h) == {k \in 0..(Len(hb) - 1) : At(hb, k) <= h}

Last(S) == CHOOSE k \in S : \A j \in S : j <= k

\* sum([lmb[j]*(hb[j+1] - hb[j]) for j in range(n)])
RECURSIVE sumT(_)
sumT(n) == IF n = 0 THEN 0
           ELSE sumT(n - 1) + At(lmb, n - 1) * (At(hb, n) - At(hb, n - 1))

\* One pass of the inner loop of gradients: the factor of layer p, computed
\* with Rair[p].
factor_term(Rair, p) ==
    LET tmb == temperature_sealevel + sumT(p + 1)
        tmb_pn1 == temperature_sealevel + sumT(p)
    IN IF At(lmb, p) # 0
       THEN [law |-> "power", a |-> tmb_pn1, b |-> tmb,
             R |-> At(Rair, p), L |-> At(lmb, p)]
       ELSE [law |-> "exp", a |-> At(hb, p + 1) - At(hb, p), b |-> tmb_pn1,
             R |-> At(Rair, p), L |-> 0]

\* The resolved layer of one element and what the loop derives from it.
layer_profile(Rair, pos) ==
    IF pos >= Len(lmb) THEN Raise("IndexError")
    ELSE IF pos > Len(Rair) THEN Raise("IndexError")
    ELSE Ok([LMb |-> At(lmb, pos),
             Hb  |-> At(hb, pos),
             TMb |-> temperature_sealevel + sumT(pos),
             pb  |-> [factor |-> [q \in 1..pos |-> factor_term(Rair, q - 1)],
                      p0 |-> pressure_sealevel]])

\* The body of the loop of gradients for one element h of hp.
gradients_at(Rair, h) ==
    IF argwhere_hb(h) = {} THEN Raise("IndexError")
    ELSE layer_profile(Rair, Last(argwhere_hb(h)))

\* The loop of gradients over hp, given Rair.
gradients_loop(hp, Rair) ==
    IF Rair.status # "ok" THEN Rair
    ELSE IF \E i \in 1..Len(hp) : gradients_at(Rair.val, hp[i]).status # "ok"
    THEN Raise("IndexError")
    ELSE Ok([i \in 1..Len(hp) |-> gradients_at(Rair.val, hp[i]).val])

\* gradients: LMb, Hb, TMb, pb, here one record per element.
gradients(obj) ==
    IF "hp" \notin DOMAIN obj THEN Raise("AttributeError")
    ELSE gradients_loop(obj.hp, air_constant(obj))

---------------------------------------------------------------------------
(* class ISA *)

ISA_init(hp_in, disa_in) ==
    LET o1 == coerce(constant_init(hp_in).obj, "hp", hp_in)
        o2 == coerce(o1, "disa", disa_in)
    IN IF "disa" \notin DOMAIN o2 THEN [status |-> "AttributeError", obj |-> o2]
       ELSE IF Len(o2.disa) = 1
       THEN IF "hp" \notin DOMAIN o2
            THEN [status |-> "AttributeError", obj |-> o2]
            ELSE [status |-> "ok",
                  obj |-> [o2 EXCEPT !.disa =
                              [i \in 1..Len(o2.hp) |-> o2.disa[1]]]]
       ELSE [status |-> "SystemExit", obj |-> o2]

\* TMb + LMb*(self.hp - Hb) + self.disa
temperature_of(obj, g) ==
    IF g.status # "ok" THEN g
    ELSE Ok([i \in 1..Len(obj.hp) |->
               g.val[i].TMb + g.val[i].LMb * (obj.hp[i] - g.val[i].Hb)
               + obj.disa[i]])

temperature(obj) == temperature_of(obj, gradients(obj))

\* The barometric formula of one element: the offset is not among its values.
pressure_term(g, R, h) ==
    IF g.LMb # 0
    THEN [law |-> "power", pb |-> g.pb, a |-> g.TMb,
          b |-> g.TMb + g.LMb * (h - g.Hb), R |-> R, L |-> g.LMb]
    ELSE [law |-> "exp", pb |-> g.pb, a |-> h - g.Hb, b |-> g.TMb,
          R |-> R, L |-> 0]

\* The barometric formula with the offset added to the layer-entry
\* temperature: what pressure would be if it depended on disa.
pressure_of_offset(obj, Rair, g) ==
    IF Rair.status # "ok" THEN Rair
    ELSE IF g.status # "ok" THEN g
    ELSE Ok([i \in 1..Len(obj.hp) |->
               pressure_term([g.val[i] EXCEPT !.TMb = @ + obj.disa[i]],
                             Rair.val[i], obj.hp[i])])

pressure_of(obj, Rair, g) ==
    IF Rair.status # "ok" THEN Rair
    ELSE IF g.status # "ok" THEN g
    ELSE Ok([i \in 1..Len(obj.hp) |->
               pressure_term(g.val[i], Rair.val[i], obj.hp[i])])

pressure(obj) == pressure_of(obj, air_constant(obj), gradients(obj))

\* pressure/(air_constant*temperature), per element.
density_of(p, Rair, T) ==
    IF p.status # "ok" THEN p
    ELSE IF Rair.status # "ok" THEN Rair
    ELSE IF T.status # "ok" THEN T
    ELSE Ok([i \in 1..Len(p.val) |->
               [p |-> p.val[i], R |-> Rair.val[i], T |-> T.val[i]]])

density(obj) == density_of(pressure(obj), air_constant(obj), temperature(obj))

---------------------------------------------------------------------------
(* The atmosphere object as a state machine *)

InitISA ==
    /\ cls = "none"
    /\ ctor = "none"
    /\ self = NoAttrs
    /\ arg_hp = Scalar(0)
    /\ arg_disa = Scalar(0)
    /\ prop = "none"
    /\ ret = NoVal

InitSpeed ==
    /\ spd_ctor = "none"
    /\ spd_args = NoAttrs
    /\ spd = NoAttrs
    /\ solver = <<>>

Init == InitISA /\ InitSpeed

\* constant(hp)
NewConstant ==
    /\ cls = "none"
    /\ \E hp_in \in HpInputs :
          LET r == constant_init(hp_in)
          IN /\ cls' = "constant"
             /\ ctor' = r.status
             /\ self' = r.obj
             /\ arg_hp' = hp_in
    /\ UNCHANGED <<arg_disa, prop, ret, spd_vars>>

\* ISA(hp, disa)
NewISA ==
    /\ cls = "none"
    /\ \E hp_in \in HpInputs, disa_in \in DisaInputs :
          LET r == ISA_init(hp_in, disa_in)
          IN /\ cls' = "ISA"
             /\ ctor' = r.status
             /\ self' = r.obj
             /\ arg_hp' = hp_in
             /\ arg_disa' = disa_in
    /\ UNCHANGED <<prop, ret, spd_vars>>

Read(name, r) ==
    /\ ctor = "ok"
    /\ prop' = name
    /\ ret' = r
    /\ UNCHANGED <<cls, ctor, self, arg_hp, arg_disa, spd_vars>>

ReadMolecularWeightRatio ==
    cls \in {"constant", "ISA"} /\
    Read("mean_molecular_weight_ratio", mean_molecular_weight_ratio(self))

ReadGradients == cls \in {"constant", "ISA"} /\ Read("gradients", gradients(self))

ReadTemperature == cls = "ISA" /\ Read("temperature", temperature(self))

ReadPressure == cls = "ISA" /\ Read("pressure", pressure(self))

ReadDensity == cls = "ISA" /\ Read("density", density(self))

NextISA ==
    \/ NewConstant
    \/ NewISA
    \/ ReadMolecularWeightRatio
    \/ ReadGradients
    \/ ReadTemperature
    \/ ReadPressure
    \/ ReadDensity

SpecISA == Init /\ [][NextISA]_vars

---------------------------------------------------------------------------
(* class speed *)
(* Mach numbers are in thousandths; speeds are in thousandths of the       *)
(* sea-level speed of sound a0, so a0 is 1000; the ratios theta, sigma and *)
(* delta and the speed-of-sound ratio a/a0 are in thousandths, and so is   *)
(* the dynamic pressure over p0.  An impact pressure is the term [eq, x]:  *)
(* the equation of the source that produced it (Olson 4.9, 4.15, 4.19,     *)
(* 4.21) and the Mach number or CAS/a0 it was applied to, relative to the  *)
(* static pressure p.                                                      *)
(*                                                                         *)
(* Only({F(v) : v \in {e}}) is F(e) with e evaluated once.                 *)

speed_sound_sealevel == 1000

SpeedValues == {500, 1000, 1500}

SpeedNames == {"mach", "eas", "cas", "tas"}

\* The speed arguments that are not None, by name.
SpeedInputs == UNION {[S -> SpeedValues] : S \in SUBSET SpeedNames}

SpeedAltitudes == {0, 25000}

NoDisa == [kind |-> "none", v |-> <<>>]

SpeedOffsets == {NoDisa, Scalar(0), Scalar(150000)}

\* The iterate a root-finder that did not converge may stop at.
LastIterates == {0, 1490}

Only(S) == CHOOSE x \in S : TRUE

\* n**0.5: the largest r with r*r <= n (0 for n < 0), found in blocks of 64.
ISqrt(n) ==
    LET blk == CHOOSE h \in 0..63 :
                   /\ h = 0 \/ (64 * h) * (64 * h) <= n
                   /\ h = 63 \/ n < (64 * (h + 1)) * (64 * (h + 1))
    IN CHOOSE r \in (64 * blk)..(64 * blk + 63) :
           /\ r = 0 \/ r * r <= n
           /\ n < (r + 1) * (r + 1)

Mul(a, b) == (a * b) \div 1000

Pow7(z) == Mul(Mul(Mul(z, z), Mul(z, z)), Mul(Mul(z, z), z))

\* r**(1/7): the largest z with z^7 <= r, in thousandths, found in blocks of 32.
Root7(r) ==
    LET blk == CHOOSE h \in 0..31 :
                   /\ Pow7(32 * h) <= r
                   /\ h = 31 \/ r < Pow7(32 * (h + 1))
    IN CHOOSE z \in (32 * blk)..(32 * blk + 31) :
           Pow7(z) <= r /\ r < Pow7(z + 1)

\* What the atmosphere gives calculate(): a/a0, sigma, theta, delta.  The
\* pressure ratio is a number only where the barometric term is p0 itself
\* (no layer factor, base temperature over itself), which is sea level.
atmosphere_of(Rair, T, p, rho) ==
    IF Rair.status # "ok" THEN Rair
    ELSE IF T.status # "ok" THEN T
    ELSE IF p.status # "ok" THEN p
    ELSE IF rho.status # "ok" THEN rho
    ELSE LET theta == ((T.val[1] \div 10) * 1000) \div (temperature_sealevel \div 10)
             delta == CASE p.val[1].pb.factor = <<>> /\ p.val[1].a = p.val[1].b
                           -> 1000
         IN Ok([a |-> ISqrt(theta * 1000),
                theta |-> theta,
                delta |-> delta,
                sigma |-> (delta * 1000) \div theta])

atmosphere(atm) ==
    Only({atmosphere_of(Rair, T, p, rho) :
            Rair \in {air_constant(atm)}, T \in {temperature(atm)},
            p \in {pressure(atm)}, rho \in {density(atm)}})

impact_pressure(mach) ==
    IF mach < 1000 THEN [eq |-> "4.9", x |-> mach]
    ELSE [eq |-> "4.15", x |-> mach]

impact_pressure_cas(cas) ==
    IF cas < speed_sound_sealevel THEN [eq |-> "4.19", x |-> cas]
    ELSE [eq |-> "4.21", x |-> cas]

\* (qc/p + 1)**(2/7) in thousandths for a supersonic term at x:
\* 1.2 x^2 (6/(7 x^2 - 1))**(5/7), z the seventh root of 6/(7 x^2 - 1).
supersonic_y(x, z) ==
    (12 * Mul((x * x) \div 1000, Mul(Mul(Mul(z, z), Mul(z, z)), z))) \div 10

\* (5*((qc/p + 1)**(2/7) - 1))**0.5 in thousandths, qc a term relative to p.
\* The subsonic equations give (qc/p + 1)**(2/7) = 1 + 0.2 x^2.
closed_form_of(qc) ==
    IF qc.eq \in {"4.9", "4.19"} THEN qc.x
    ELSE Only({ISqrt(5 * (supersonic_y(qc.x, z) - 1000) * 1000) :
                 z \in {Root7(6000000 \div ((7 * qc.x * qc.x - 1000000) \div 1000))}})

closed_form(qc) == Only({closed_form_of(t) : t \in {qc}})

\* The object with the attributes of new assigned.
Set(obj, new) == new @@ obj

dynamic_pressure(sigma, tas) == (7 * Mul(Mul(tas, tas), sigma)) \div 10

Done(status, obj, branch) == [status |-> status, obj |-> obj, branch |-> branch]

\* The branches of calculate(), each up to its closed-form result.
branches(obj, a, sigma, delta) ==
    IF "mach" \in DOMAIN obj
    THEN Done("ok",
              Set(obj, [qc |-> impact_pressure(obj.mach),
                        tas |-> Mul(obj.mach, a),
                        q |-> dynamic_pressure(sigma, Mul(obj.mach, a)),
                        eas |-> Mul(Mul(obj.mach, a), ISqrt(sigma * 1000)),
                        cas |-> closed_form(impact_pressure(obj.mach))]),
              "mach")
    ELSE IF "eas" \in DOMAIN obj
    THEN Only({Done("ok",
                    Set(obj, [mach |-> mach,
                              tas |-> tas,
                              qc |-> impact_pressure(mach),
                              q |-> dynamic_pressure(sigma, tas),
                              cas |-> closed_form(impact_pressure(mach))]),
                    "eas") :
                 mach \in {(obj.eas * 1000) \div ISqrt(delta * 1000)},
                 tas \in {(obj.eas * 1000) \div ISqrt(sigma * 1000)}})
    ELSE IF "tas" \in DOMAIN obj
    THEN Only({Done("ok",
                    Set(obj, [mach |-> mach,
                              eas |-> Mul(obj.tas, ISqrt(sigma * 1000)),
                              qc |-> impact_pressure(mach),
                              q |-> dynamic_pressure(sigma, obj.tas),
                              cas |-> closed_form(impact_pressure(mach))]),
                    "tas") :
                 mach \in {(obj.tas * 1000) \div a}})
    ELSE IF "cas" \in DOMAIN obj
    THEN Only({IF mach >= 1000
               THEN \* fsolve(mach_correction, self.mach, args = (qc)): no
                    \* name qc is bound in calculate
                    Done("NameError",
                         Set(obj, [qc |-> impact_pressure_cas(obj.cas),
                                   mach |-> mach]),
                         "cas")
               ELSE Done("ok",
                         Set(obj, [qc |-> impact_pressure_cas(obj.cas),
                                   mach |-> mach,
                                   tas |-> Mul(mach, a),
                                   eas |-> Mul(Mul(mach, a), ISqrt(sigma * 1000)),
                                   q |-> dynamic_pressure(sigma, Mul(mach, a))]),
                         "cas") :
                 mach \in {closed_form(impact_pressure_cas(obj.cas))}})
    ELSE Done("SystemExit", obj, "none")

\* calculate() once ISA(...) is built and its properties are read.
after_atmosphere(obj, built, atm) ==
    IF built.status # "ok" THEN Done(built.status, obj, "none")
    ELSE IF atm.status # "ok" THEN Done(atm.status, obj, "none")
    ELSE branches(obj, atm.val.a, atm.val.sigma, atm.val.delta)

\* ISA(self.hp, self.disa), with zeros_like(self.hp) for a disa of None.
speed_atm(obj) ==
    ISA_init(obj.hp, IF obj.disa = NoDisa THEN Scalar(0) ELSE obj.disa)

\* calculate() up to the closed-form results of its branch.
calculate_closed_form(obj) ==
    Only({after_atmosphere(obj, built, atm) :
            built \in {speed_atm(obj)},
            atm \in {atmosphere(speed_atm(obj).obj)}})

\* fsolve(f, x0, args): the root when it converges, else its last iterate;
\* either is returned to the caller as a value.
fsolve(f, x0, qc, converged, last) ==
    [call |-> [f |-> f, x0 |-> x0, args |-> qc, converged |-> converged],
     x |-> IF converged
           THEN CASE qc.eq \in {"4.15", "4.21"} -> qc.x
           ELSE last]

\* The last statement of the Mach, EAS and TAS branches:
\* if self.cas >= a0: self.cas = fsolve(cas_correction, self.cas, args = (self.qc))
cas_fallback(r, converged, last) ==
    IF r.status = "ok" /\ r.branch \in {"mach", "eas", "tas"}
       /\ r.obj.cas >= speed_sound_sealevel
    THEN [status |-> "ok",
          obj |-> Set(r.obj, [cas |-> fsolve("cas_correction", r.obj.cas, r.obj.qc,
                                             converged, last).x]),
          calls |-> <<fsolve("cas_correction", r.obj.cas, r.obj.qc,
                             converged, last).call>>]
    ELSE [status |-> r.status, obj |-> r.obj, calls |-> <<>>]

\* speed.__init__: the attributes as given (None left out).
speed_attrs(hp_in, disa_in, given) == [hp |-> hp_in, disa |-> disa_in] @@ given

\* speed(hp, disa, mach, eas, cas, tas)
NewSpeed ==
    /\ spd_ctor = "none"
    /\ \E h \in SpeedAltitudes, disa_in \in SpeedOffsets, given \in SpeedInputs :
       \E r \in {calculate_closed_form(speed_attrs(Scalar(h), disa_in, given))} :
       \E converged \in BOOLEAN, last \in LastIterates :
       \E out \in {cas_fallback(r, converged, last)} :
          /\ spd_ctor' = out.status
          /\ spd_args' = given
          /\ spd' = out.obj
          /\ solver' = out.calls
    /\ UNCHANGED isa_vars

NextSpeed == NewSpeed

SpecSpeed == Init /\ [][NextSpeed]_vars

Next == NextISA \/ NextSpeed

Spec == Init /\ [][Next]_vars

---------------------------------------------------------------------------
(* Properties *)

\* C1: a call of speed(...) in which none or more than one of mach, eas,
\* cas, tas is supplied ends in the input error (exit()), and no supplied
\* speed is overwritten and no conversion result is produced: the object
\* holds hp, disa and the speeds exactly as given.
C1_ExactlyOneSpeedElseError ==
    (spd_ctor # "none" /\ Cardinality(DOMAIN spd_args) # 1)
    => /\ spd_ctor = "SystemExit"
       /\ DOMAIN spd = {"hp", "disa"} \cup DOMAIN spd_args
       /\ \A n \in DOMAIN spd_args : spd[n] = spd_args[n]

\* C2: ISA(hp, disa) with disa a sequence as long as the altitude sequence
\* is accepted, and offset k is the offset of altitude k.
C2_MatchingOffsetSequenceAccepted ==
    (cls = "ISA" /\ arg_hp.kind = "seq" /\ arg_disa.kind = "seq"
       /\ Len(arg_disa.v) = Len(arg_hp.v))
    => /\ ctor = "ok"
       /\ "disa" \in DOMAIN self
       /\ self.disa = arg_disa.v

\* C3: every non-empty altitude input (a number, a sequence of length one,
\* a longer sequence) leaves the object with hp set to an array of the same
\* length and the same values.
C3_EveryAltitudeInputSetsHp ==
    ((cls = "constant") \/ (cls = "ISA" /\ arg_disa.kind = "scalar"))
    => /\ ctor = "ok"
       /\ "hp" \in DOMAIN self
       /\ self.hp = arg_hp.v

\* C4: when every altitude of the object is within 0..84852 m, reading the
\* layer profile and reading the molecular-weight ratio give a value, alone
\* or in a batch of any length.
C4_NoFailureWithinRange ==
    (ctor = "ok" /\ "hp" \in DOMAIN self
       /\ (\A i \in 1..Len(self.hp) : 0 <= self.hp[i] /\ self.hp[i] <= 84852)
       /\ prop \in {"gradients", "mean_molecular_weight_ratio"})
    => ret.status = "ok"

\* C5: for any two batches with the same offset that both contain an
\* altitude h and for which the read gives a value, the layer-entry
\* pressure, the pressure and the density of h are the same in both.
C5_BatchElementsIndependent ==
    (cls = "ISA" /\ ctor = "ok" /\ ret.status = "ok"
       /\ prop \in {"gradients", "pressure", "density"})
    => \A hp2 \in HpInputs :
         LET other == ISA_init(hp2, arg_disa)
             ret2 == CASE prop = "gradients" -> gradients(other.obj)
                       [] prop = "pressure" -> pressure(other.obj)
                       [] prop = "density" -> density(other.obj)
         IN (other.status = "ok" /\ ret2.status = "ok")
            => \A i \in 1..Len(self.hp), j \in 1..Len(other.obj.hp) :
                 self.hp[i] = other.obj.hp[j]
                 => IF prop = "gradients"
                    THEN ret.val[i].pb = ret2.val[j].pb
                    ELSE ret.val[i] = ret2.val[j]

\* C6: when only cas is supplied and the closed-form inverse gives
\* Mach >= 1, the root-finder is called once on mach_correction with the
\* impact pressure just computed, seeded with the closed-form Mach, and the
\* call of speed(...) completes with mach, tas, eas and q set.
C6_SupersonicCasSolvedAndCompleted ==
    (spd_ctor # "none" /\ DOMAIN spd_args = {"cas"}
       /\ closed_form(impact_pressure_cas(spd_args.cas)) >= 1000)
    => /\ spd_ctor = "ok"
       /\ Len(solver) = 1
       /\ solver[1].f = "mach_correction"
       /\ solver[1].args = impact_pressure_cas(spd_args.cas)
       /\ solver[1].x0 = closed_form(impact_pressure_cas(spd_args.cas))
       /\ {"mach", "tas", "eas", "q"} \subseteq DOMAIN spd

\* C7: when a call of the root-finder made by speed(...) does not
\* converge, speed(...) does not return normally.
C7_NonConvergenceSurfaced ==
    (spd_ctor # "none"
       /\ \E k \in 1..Len(solver) : ~solver[k].converged)
    => spd_ctor # "ok"

\* C8: what reading pressure (and the layer profile) of ISA(hp, d1) gives,
\* value or failure, is what it gives for ISA(hp, d2) with any other offset
\* d2; reading temperature ends the same way for both, and the values
\* differ by exactly d1 - d2 in every element.
C8_PressureIndependentOfOffset ==
    (cls = "ISA" /\ ctor = "ok"
       /\ prop \in {"pressure", "gradients", "temperature"})
    => \A d2 \in Offsets :
         LET other == ISA_init(arg_hp, Scalar(d2))
         IN /\ other.status = "ok"
            /\ prop = "pressure" => ret = pressure(other.obj)
            /\ prop = "gradients" => ret = gradients(other.obj)
            /\ prop = "temperature"
               => /\ ret.status = temperature(other.obj).status
                  /\ ret.status = "ok"
                     => \A i \in 1..Len(self.hp) :
                          ret.val[i] - temperature(other.obj).val[i]
                            = self.disa[i] - d2

\* C8 case: pressure was read, with a value, from an object built with a
\* non-zero offset.
C8_Witness ==
    /\ cls = "ISA" /\ ctor = "ok"
    /\ prop = "pressure" /\ ret.status = "ok"
    /\ arg_disa = Scalar(150000)

\* C9: for altitudes below 84852 m, the layer profile is returned and its
\* lapse rate and base altitude are those of the one layer k with
\* hb[k] <= h < hb[k+1].
C9_LayerIsHalfOpenInterval ==
    (ctor = "ok" /\ "hp" \in DOMAIN self /\ prop = "gradients"
       /\ \A i \in 1..Len(self.hp) : 0 <= self.hp[i] /\ self.hp[i] < 84852)
    => /\ ret.status = "ok"
       /\ \A i \in 1..Len(self.hp) :
            \E k \in 0..(Len(lmb) - 1) :
               /\ At(hb, k) <= self.hp[i] /\ self.hp[i] < At(hb, k + 1)
               /\ ret.val[i].LMb = At(lmb, k)
               /\ ret.val[i].Hb = At(hb, k)

\* C10: at each boundary hb[k], k = 1..7, the temperature read at the
\* boundary altitude is the temperature of the layer below extended up to
\* the boundary (same offset).
C10_TemperatureContinuousAtBoundaries ==
    (cls = "ISA" /\ ctor = "ok" /\ prop = "temperature")
    => \A i \in 1..Len(self.hp) :
         \A k \in 1..(Len(hb) - 1) :
            self.hp[i] = At(hb, k)
            => /\ ret.status = "ok"
               /\ ret.val[i] = temperature_sealevel + sumT(k - 1)
                               + At(lmb, k - 1) * (At(hb, k) - At(hb, k - 1))
                               + self.disa[i]

\* C11: wherever calculate() chooses between the subsonic and the supersonic
\* side, the choice is strict: the impact pressure from Mach is equation 4.9
\* iff Mach < 1 (else 4.15) and the root-finder is called on cas_correction
\* iff the closed-form CAS >= a0; the impact pressure from CAS is equation
\* 4.19 iff CAS < a0 (else 4.21) and the root-finder is called on
\* mach_correction iff the closed-form Mach >= 1.
C11_StrictBranchChoice ==
    (spd_ctor # "none" /\ "qc" \in DOMAIN spd)
    => IF DOMAIN spd_args \cap {"mach", "eas", "tas"} # {}
       THEN /\ spd.qc.eq = "4.9" <=> spd.mach < 1000
            /\ spd.qc.eq = "4.15" <=> spd.mach >= 1000
            /\ (\E k \in 1..Len(solver) : solver[k].f = "cas_correction")
               <=> closed_form(spd.qc) >= speed_sound_sealevel
       ELSE /\ spd.qc.eq = "4.19" <=> spd_args.cas < speed_sound_sealevel
            /\ spd.qc.eq = "4.21" <=> spd_args.cas >= speed_sound_sealevel
            /\ (\E k \in 1..Len(solver) : solver[k].f = "mach_correction")
               <=> closed_form(spd.qc) >= 1000

====
